---- MODULE Spec2Model ----
(***************************************************************************)
(* Model of the websocket game server of src/src/ws_handler.rs: the match  *)
(* record kept in the "games" collection, the connection registry, the     *)
(* table of disconnected players, the per-connection message loop and the  *)
(* background tasks it spawns.                                             *)
(*                                                                         *)
(* Every handler is cut at the awaits on the store: a step is the code     *)
(* between two store operations, so that the stale reads and the           *)
(* unconditional writes of the source are visible.  Time is counted in     *)
(* ticks; clocks, timestamps and sleeps are in the same unit.              *)
(*                                                                         *)
(* The registry mutex is only ever taken with try_lock.  A section under   *)
(* the lock is one step, except that of the RequestTimeSync handler, which *)
(* holds the lock from one step to the next: that is how a second task     *)
(* finds the mutex taken, as it can on the multi-threaded runtime.         *)
(***************************************************************************)
EXTENDS Integers, Sequences, FiniteSets, TLC

\* ------------------------------------------------------------------ bounds
MaxTime == 3
MaxFrames == 3
MaxLobbyTime == 1

\* ------------------------------------------------------- program constants
\* tokio::time::sleep(Duration::from_secs(15)) of the abandonment task, in ticks
GraceTicks == 2
\* tokio::time::sleep(Duration::from_secs(2)) of start_game_timer, in ticks
StartDelayTicks == 1

\* ------------------------------------------------------------------ inputs
\* "timea" is a username that has "time" as a substring
Players == {"alice", "bob", "carol", "timea"}
Conns == {1, 2, 3, 4}
G1 == "g1"
G2 == "g2"
GameIds == {G1, G2}
None == "none"
NoGame == [absent |-> TRUE]
NoConn == [absent |-> TRUE]
NoInfo == [absent |-> TRUE]
\* time control and increment of the create-game request, in ticks
TimeControls == {2}
Increments == {1}
\* the from/to squares of a Move frame, already concatenated
MoveInputs == {"e2e4"}
\* what the rules engine makes of the fen of a Move frame
FenPlain == "plain"
FenMate == "checkmate"
FenStale == "stalemate"
FenBare == "insufficient"
FenBad == "unparseable"
StartFen == "start"
\* the positions of the Move frames modelled
FenInputs == {FenPlain, FenMate}

VARIABLES
    games,          \* the games collection: game id -> document or NoGame
    now,            \* current_timestamp_ms(), in ticks
    conns,          \* the Connections map: username -> PlayerConnection
    disconnected,   \* DISCONNECTED_PLAYERS: username -> DisconnectionInfo
    timers,         \* sleeping abandonment tasks
    starters,       \* sleeping start_game_timer tasks
    h,              \* per connection: position and locals of handle_connection
    player_info,    \* per connection: the player_info local of handle_connection
    sent,           \* the messages the last step put on outbound channels
    frames,         \* number of client frames taken so far
    drops,          \* per player: when the earliest session of g1 closed that no
                    \* JoinGame has followed yet (-1: none), and whether a rejoin
                    \* ever came after the grace window of such a close
    told,           \* per player: the colour of the last GameJoined for g1 sent to
                    \* the player, None when there was none
    chat_messages,  \* the chat_messages collection, in insertion order
    conn_lock,      \* TRUE while a task holds the mutex of the Connections map
    undecoded       \* per connection: number of frames that failed to decode

vars == <<games, now, conns, disconnected, timers, starters, h, player_info, sent, frames,
          drops, told, chat_messages, conn_lock, undecoded>>

\* ------------------------------------------------------------ result texts
\* A result text is the sequence of its whitespace-separated words.
Lower(w) ==
    CASE w = "White" -> "white"
      [] w = "Black" -> "black"
      [] w = "Draw" -> "draw"
      [] OTHER -> w

\* str::contains on one word: the word itself or a listed proper substring
WordHas(w, pat) ==
    \/ w = pat
    \/ <<w, pat>> \in {<<"abandonment", "abandon">>, <<"timeout", "time">>,
                       <<"timea", "time">>}

Contains(text, pat) == \E i \in 1..Len(text) : WordHas(text[i], pat)

ContainsLower(text, pat) == \E i \in 1..Len(text) : WordHas(Lower(text[i]), pat)

ContainsPair(text, a, b) ==
    \E i \in 1..(Len(text) - 1) : text[i] = a /\ text[i + 1] = b

FirstWord(text) == IF Len(text) > 0 THEN text[1] ELSE None

\* get_game_result_info: <<standardized result, winner>>
get_game_result_info(result_str, white_player, black_player) ==
    IF Contains(result_str, "abandoned") /\ Len(result_str) > 0
    THEN IF white_player = FirstWord(result_str)
         THEN <<"0-1", black_player>> ELSE <<"1-0", white_player>>
    ELSE IF Contains(result_str, "resigned") /\ Len(result_str) > 0
    THEN IF white_player = FirstWord(result_str)
         THEN <<"0-1", black_player>> ELSE <<"1-0", white_player>>
    ELSE IF Contains(result_str, "time")
    THEN IF ContainsPair(result_str, "White", "wins") THEN <<"1-0", white_player>>
         ELSE IF ContainsPair(result_str, "Black", "wins") THEN <<"0-1", black_player>>
         ELSE <<"*", None>>
    ELSE IF Contains(result_str, "checkmate")
    THEN IF ContainsPair(result_str, "White", "wins") THEN <<"1-0", white_player>>
         ELSE IF ContainsPair(result_str, "Black", "wins") THEN <<"0-1", black_player>>
         ELSE <<"*", None>>
    ELSE IF Contains(result_str, "stalemate") \/ Contains(result_str, "draw")
    THEN <<"1/2-1/2", None>>
    ELSE IF result_str = <<"1-0">> THEN <<"1-0", white_player>>
    ELSE IF result_str = <<"0-1">> THEN <<"0-1", black_player>>
    ELSE <<"*", None>>

\* the reason tag send_completed_game derives from the stored result and reason
CompletedReason(game) ==
    IF ContainsLower(game.result, "time") \/ game.reason = "timeout" THEN "timeout"
    ELSE IF ContainsLower(game.result, "resigned") THEN "resignation"
    ELSE IF ContainsLower(game.result, "checkmate") THEN "checkmate"
    ELSE IF ContainsLower(game.result, "stalemate") THEN "stalemate"
    ELSE IF ContainsLower(game.result, "draw") \/ game.reason = "Draw" THEN "draw"
    ELSE IF ContainsLower(game.result, "abandonment")
            \/ ContainsLower(game.result, "abandoned") THEN "abandonment"
    ELSE "unknown"

\* ---------------------------------------------------------------- messages
GameCompletedMsg(to, game) ==
    [to |-> to, type |-> "GameCompleted", game_id |-> game.id,
     result |-> get_game_result_info(game.result, game.white_player, game.black_player)[1],
     winner |-> get_game_result_info(game.result, game.white_player, game.black_player)[2],
     reason |-> CompletedReason(game), status |-> game.status,
     white_time_ms |-> game.white_time_ms, black_time_ms |-> game.black_time_ms]

GameJoinedMsg(to, color, game, username) ==
    [to |-> to, type |-> "GameJoined", game_id |-> game.id, color |-> color,
     username |-> username,
     opponent |-> IF color = "white" THEN game.black_player ELSE game.white_player]

SimpleMsg(to, type) == [to |-> to, type |-> type]

TimeUpdateMsg(to, w, b) ==
    [to |-> to, type |-> "TimeUpdate", white_time_ms |-> w, black_time_ms |-> b]

\* connections.try_lock() succeeds when no task holds the mutex
TryLock == ~conn_lock

\* the connection ids of the registry entries of one match, as a broadcast
\* under try_lock sees them: none when the lock is not obtained
SessionsOf(game_id) ==
    IF TryLock
    THEN {conns[p].id : p \in {q \in Players : conns[q] # NoConn /\ conns[q].game_id = game_id}}
    ELSE {}

\* conns.insert(username, PlayerConnection {..}) under try_lock
RegistryInsert(c, game_id, username, color) ==
    IF TryLock
    THEN [conns EXCEPT ![username] =
            [id |-> c, game_id |-> game_id, username |-> username, color |-> color]]
    ELSE conns

\* ------------------------------------------------------------------- state
\* the document create_game inserts
NewGame(id, tc, inc) ==
    [id |-> id, white_player |-> None, black_player |-> None, fen |-> StartFen,
     status |-> "waiting", turn |-> "white", moves |-> <<>>,
     white_time_ms |-> tc, black_time_ms |-> tc, last_move_timestamp |-> 0,
     increment_ms |-> inc, result |-> <<>>, draw_offered_by |-> None,
     reason |-> None, winner |-> None]

NoDrop == [open |-> -1, late |-> FALSE]
Idle == [pc |-> "idle"]
Closed == [pc |-> "closed"]

InitCommon ==
    /\ now = 0
    /\ conns = [p \in Players |-> NoConn]
    /\ disconnected = [p \in Players |-> NoInfo]
    /\ timers = {}
    /\ starters = {}
    /\ h = [c \in Conns |-> Idle]
    /\ player_info = [c \in Conns |-> NoInfo]
    /\ sent = {}
    /\ frames = 0
    /\ drops = [p \in Players |-> NoDrop]
    /\ told = [p \in Players |-> None]
    /\ chat_messages = <<>>
    /\ conn_lock = FALSE
    /\ undecoded = [c \in Conns |-> 0]

\* one match created over HTTP, nobody joined yet; g2 is an id of no match
Init ==
    /\ InitCommon
    /\ \E tc \in TimeControls, inc \in Increments :
          games = [g \in GameIds |-> IF g = G1 THEN NewGame(G1, tc, inc) ELSE NoGame]

Tick ==
    /\ now < MaxTime
    /\ now' = now + 1
    /\ sent' = {}
    /\ UNCHANGED <<games, conns, disconnected, timers, starters, h, player_info, frames, drops, told, chat_messages, conn_lock, undecoded>>

\* -------------------------------------------------------- handle_time_sync
\* the TimeUpdate messages of handle_time_sync without the .max(0)
TimeSyncMsgsNoFloor(game_id) ==
    LET game == games[game_id] IN
    IF game = NoGame \/ game.status # "active"
       \/ game.white_player = None \/ game.black_player = None
    THEN {}
    ELSE LET elapsed_ms == now - game.last_move_timestamp
             w == IF game.turn = "white"
                  THEN game.white_time_ms - elapsed_ms ELSE game.white_time_ms
             b == IF game.turn = "white"
                  THEN game.black_time_ms ELSE game.black_time_ms - elapsed_ms
         IN {TimeUpdateMsg(to, w, b) : to \in SessionsOf(game_id)}

\* the TimeUpdate messages handle_time_sync broadcasts for game_id
TimeSyncMsgs(game_id) ==
    LET game == games[game_id] IN
    IF game = NoGame \/ game.status # "active"
       \/ game.white_player = None \/ game.black_player = None
    THEN {}
    ELSE LET elapsed_ms == now - game.last_move_timestamp
             w == IF game.turn = "white"
                  THEN IF game.white_time_ms - elapsed_ms > 0
                       THEN game.white_time_ms - elapsed_ms ELSE 0
                  ELSE game.white_time_ms
             b == IF game.turn = "white"
                  THEN game.black_time_ms
                  ELSE IF game.black_time_ms - elapsed_ms > 0
                       THEN game.black_time_ms - elapsed_ms ELSE 0
         IN {TimeUpdateMsg(to, w, b) : to \in SessionsOf(game_id)}

\* the handle_time_sync call that follows handle_join_game and handle_move
TrailingSync(c) ==
    /\ h[c].pc = "sync"
    /\ sent' = TimeSyncMsgs(h[c].game_id)
    /\ h' = [h EXCEPT ![c] = Idle]
    /\ UNCHANGED <<games, now, conns, disconnected, timers, starters, player_info, frames, drops, told, chat_messages, conn_lock, undecoded>>

\* --------------------------------------------------------- handle_join_game
\* the colour handle_join_game picks for a waiting game, None when both are taken
JoinColor(game) ==
    IF game.white_player = None THEN "white"
    ELSE IF game.black_player = None THEN "black"
    ELSE None

\* the $set document of the join update
JoinUpdate(game, stored, color, username) ==
    IF color = "white"
    THEN [stored EXCEPT !.white_player = username,
                        !.status = IF game.black_player # None THEN "active" ELSE "waiting"]
    ELSE [stored EXCEPT !.black_player = username,
                        !.status = IF game.white_player # None THEN "active" ELSE "waiting"]

\* the arm of handle_join_game a document read takes, the check of the active
\* arm left out
JoinBranchNoFullCheck(game, username) ==
    IF game = NoGame THEN "not_found"
    ELSE IF game.status = "completed" THEN "completed"
    ELSE IF game.status = "waiting"
    THEN IF JoinColor(game) = None THEN "full" ELSE "assign"
    ELSE "reconnect"

\* the arm of handle_join_game a document read takes, Ok(None) taken for Err(e)
JoinBranchNoneAsError(game, username) ==
    IF game = NoGame THEN "error"
    ELSE IF game.status = "completed" THEN "completed"
    ELSE IF game.status = "active" /\ game.white_player # username
            /\ game.black_player # username
    THEN "full"
    ELSE IF game.status = "waiting"
    THEN IF JoinColor(game) = None THEN "full" ELSE "assign"
    ELSE "reconnect"

\* the arm of handle_join_game a document read takes, the completed arm left
\* out
JoinBranchNoCompletedArm(game, username) ==
    IF game = NoGame THEN "not_found"
    ELSE IF game.status = "active" /\ game.white_player # username
            /\ game.black_player # username
    THEN "full"
    ELSE IF game.status = "waiting"
    THEN IF JoinColor(game) = None THEN "full" ELSE "assign"
    ELSE "reconnect"

\* the arm of handle_join_game the document read takes
JoinBranch(game, username) ==
    IF game = NoGame THEN "not_found"
    ELSE IF game.status = "completed" THEN "completed"
    ELSE IF game.status = "active" /\ game.white_player # username
            /\ game.black_player # username
    THEN "full"
    ELSE IF game.status = "waiting"
    THEN IF JoinColor(game) = None THEN "full" ELSE "assign"
    ELSE "reconnect"

\* what told becomes when GameJoined with color goes to username for game_id
Told(game_id, username, color) ==
    IF game_id = G1 THEN [told EXCEPT ![username] = color] ELSE told

\* JoinGame frame: player_info is set, the disconnection record of the same
\* match is dropped, the game is read and every arm but the assigning one ends
JoinRead(c, game_id, username) ==
    /\ h[c].pc = "idle"
    /\ frames < MaxFrames
    /\ frames' = frames + 1
    /\ player_info' = [player_info EXCEPT ![c] = [game_id |-> game_id, username |-> username]]
    /\ disconnected' =
          IF disconnected[username] # NoInfo /\ disconnected[username].game_id = game_id
          THEN [disconnected EXCEPT ![username] = NoInfo]
          ELSE disconnected
    /\ LET game == games[game_id]
           branch == JoinBranch(game, username)
           sync == [pc |-> "sync", game_id |-> game_id, after |-> "JoinGame"]
       IN
       CASE branch = "not_found" ->
              /\ sent' = {SimpleMsg(c, "GameNotFound")}
              /\ h' = [h EXCEPT ![c] = sync]
              /\ UNCHANGED <<conns, told>>
         [] branch = "error" ->
              /\ sent' = {SimpleMsg(c, "Error")}
              /\ h' = [h EXCEPT ![c] = sync]
              /\ UNCHANGED <<conns, told>>
         [] branch = "completed" ->
              /\ sent' = {GameCompletedMsg(c, game)}
              /\ h' = [h EXCEPT ![c] = sync]
              /\ UNCHANGED <<conns, told>>
         [] branch = "full" ->
              /\ sent' = {SimpleMsg(c, "GameFull")}
              /\ h' = [h EXCEPT ![c] = sync]
              /\ UNCHANGED <<conns, told>>
         [] branch = "assign" ->
              /\ sent' = {}
              /\ h' = [h EXCEPT ![c] =
                         [pc |-> "join_write", game_id |-> game_id,
                          username |-> username, game |-> game,
                          color |-> JoinColor(game)]]
              /\ UNCHANGED <<conns, told>>
         [] branch = "reconnect" ->
              LET color == IF game.white_player = username THEN "white" ELSE "black" IN
              /\ conns' = RegistryInsert(c, game_id, username, color)
              /\ sent' = {GameJoinedMsg(c, color, game, username)}
              /\ told' = Told(game_id, username, color)
              /\ h' = [h EXCEPT ![c] = sync]
    /\ drops' = IF game_id = G1 /\ drops[username].open >= 0
                 THEN [drops EXCEPT ![username] =
                         [open |-> -1,
                          late |-> @.late \/ now >= @.open + GraceTicks]]
                 ELSE drops
    /\ UNCHANGED <<games, now, timers, starters, chat_messages, conn_lock, undecoded>>

\* games.update_one({_id}, update) of the join, then the registry insert
JoinWrite(c) ==
    /\ h[c].pc = "join_write"
    /\ games' = [games EXCEPT ![h[c].game_id] =
                    JoinUpdate(h[c].game, @, h[c].color, h[c].username)]
    /\ conns' = RegistryInsert(c, h[c].game_id, h[c].username, h[c].color)
    /\ h' = [h EXCEPT ![c] = [pc |-> "join_reread", game_id |-> h[c].game_id,
                              username |-> h[c].username, color |-> h[c].color]]
    /\ sent' = {}
    /\ UNCHANGED <<now, disconnected, timers, starters, player_info, frames, drops, told, chat_messages, conn_lock, undecoded>>

\* notify_opponent: OpponentJoined to the registry entry of the other slot
OpponentJoinedMsgs(game, username) ==
    LET opponent == IF game.white_player = username
                    THEN game.black_player ELSE game.white_player
    IN IF TryLock /\ opponent # None /\ conns[opponent] # NoConn
       THEN {[to |-> conns[opponent].id, type |-> "OpponentJoined", username |-> username]}
       ELSE {}

\* the second find_one of the join: GameJoined, OpponentJoined and, when the
\* document read is active, a spawned start_game_timer
JoinReread(c) ==
    /\ h[c].pc = "join_reread"
    /\ LET updated_game == games[h[c].game_id] IN
       /\ sent' = {GameJoinedMsg(c, h[c].color, updated_game, h[c].username)}
                    \cup OpponentJoinedMsgs(updated_game, h[c].username)
       /\ starters' = IF updated_game.status = "active"
                      THEN starters \cup {[game_id |-> h[c].game_id,
                                           deadline |-> now + StartDelayTicks]}
                      ELSE starters
    /\ told' = Told(h[c].game_id, h[c].username, h[c].color)
    /\ h' = [h EXCEPT ![c] = [pc |-> "sync", game_id |-> h[c].game_id, after |-> "JoinGame"]]
    /\ UNCHANGED <<games, now, conns, disconnected, timers, player_info, frames, drops, chat_messages, conn_lock, undecoded>>

\* start_game_timer after its sleep: stamps last_move_timestamp, whatever the
\* status, and broadcasts the clocks it read
StartGameTimer(t) ==
    /\ t \in starters
    /\ now >= t.deadline
    /\ starters' = starters \ {t}
    /\ LET game == games[t.game_id] IN
       /\ games' = [games EXCEPT ![t.game_id].last_move_timestamp = now]
       /\ sent' = {TimeUpdateMsg(to, game.white_time_ms, game.black_time_ms) :
                      to \in SessionsOf(t.game_id)}
    /\ UNCHANGED <<now, conns, disconnected, timers, h, player_info, frames, drops, told, chat_messages, conn_lock, undecoded>>

\* -------------------------------------------------------------- handle_move
\* handle_move with the turn check left out
MoveAllowedAnyTurn(game, username) ==
    game.status = "active"

\* the status and turn checks of handle_move on the document it read
MoveAllowed(game, username) ==
    /\ game.status = "active"
    /\ ~ \/ (game.turn = "white" /\ game.white_player # username)
         \/ (game.turn = "black" /\ game.black_player # username)

\* Fen::from_str and Chess::from_setup succeed
FenParses(fen) == fen # FenBad

Max0(x) == IF x > 0 THEN x ELSE 0

\* the mover's clock without the floor at zero
MoverClockNoFloor(time_ms, elapsed_ms, increment_ms, n_moves) ==
    (time_ms - elapsed_ms) + (IF n_moves > 1 THEN increment_ms ELSE 0)

\* the mover's clock with the increment credited on every move
MoverClockAlwaysCredit(time_ms, elapsed_ms, increment_ms, n_moves) ==
    (IF time_ms - elapsed_ms > 0 THEN time_ms - elapsed_ms ELSE 0) + increment_ms

\* the mover's clock after the move: elapsed time off, floored at zero, then
\* the increment once the move list holds more than one move
MoverClock(time_ms, elapsed_ms, increment_ms, n_moves) ==
    Max0(time_ms - elapsed_ms) + (IF n_moves > 1 THEN increment_ms ELSE 0)

\* the local game struct of handle_move after "Update game state first" and
\* "Calculate and update times"
ApplyMove(game, mv, fen, t) ==
    LET moves == Append(game.moves, mv)
        turn == IF game.turn = "white" THEN "black" ELSE "white"
        elapsed_ms == t - game.last_move_timestamp
    IN [game EXCEPT
          !.moves = moves,
          !.fen = fen,
          !.turn = turn,
          !.white_time_ms = IF turn = "black"
                            THEN MoverClock(@, elapsed_ms, game.increment_ms, Len(moves))
                            ELSE @,
          !.black_time_ms = IF turn = "black"
                            THEN @
                            ELSE MoverClock(@, elapsed_ms, game.increment_ms, Len(moves)),
          !.last_move_timestamp = t]

\* the result text handle_move derives from the position, <<>> for none
MoveResult(game) ==
    IF game.fen = FenMate
    THEN <<IF game.turn = "white" THEN "Black" ELSE "White", "wins", "by", "checkmate">>
    ELSE IF game.fen = FenStale THEN <<"Draw", "by", "stalemate">>
    ELSE IF game.fen = FenBare THEN <<"Draw", "by", "insufficient", "material">>
    ELSE <<>>

\* Move frame: find_one, the checks, and the local update of the struct read
MoveRead(c, game_id, username, mv, fen) ==
    /\ h[c].pc = "idle"
    /\ frames < MaxFrames
    /\ frames' = frames + 1
    /\ LET game == games[game_id] IN
       IF game # NoGame /\ MoveAllowed(game, username) /\ FenParses(fen)
       THEN h' = [h EXCEPT ![c] = [pc |-> "move_write", game_id |-> game_id,
                                   username |-> username,
                                   game |-> ApplyMove(game, mv, fen, now)]]
       ELSE h' = [h EXCEPT ![c] = [pc |-> "sync", game_id |-> game_id, after |-> "Move"]]
    /\ sent' = {}
    /\ UNCHANGED <<games, now, conns, disconnected, timers, starters, player_info, drops, told, chat_messages, conn_lock, undecoded>>

\* the $set document of the move update
MoveUpdate(stored, game) ==
    [stored EXCEPT !.moves = game.moves, !.fen = game.fen, !.turn = game.turn,
                   !.white_time_ms = game.white_time_ms,
                   !.black_time_ms = game.black_time_ms,
                   !.last_move_timestamp = game.last_move_timestamp]

MoveMadeMsg(to, game, username) ==
    [to |-> to, type |-> "MoveMade", game_id |-> game.id, by_username |-> username,
     turn |-> game.turn, moves |-> game.moves,
     white_time_ms |-> game.white_time_ms, black_time_ms |-> game.black_time_ms]

\* what check_time_out computes from the struct handle_move holds:
\* <<timed out, result text, white remaining, black remaining>>
TimeOutCheck(game, t) ==
    LET elapsed_ms == t - game.last_move_timestamp
        w == IF game.turn = "white" THEN game.white_time_ms - elapsed_ms
             ELSE game.white_time_ms
        b == IF game.turn = "white" THEN game.black_time_ms
             ELSE game.black_time_ms - elapsed_ms
    IN <<game.status = "active" /\ (w <= 0 \/ b <= 0),
         IF w <= 0 THEN <<"Black", "wins", "on", "time">>
         ELSE <<"White", "wins", "on", "time">>,
         w, b>>

\* games.update_one({_id}, ..) of the move, the MoveMade broadcast, and the
\* choice between handle_game_over, check_time_out and nothing
MoveWrite(c) ==
    /\ h[c].pc = "move_write"
    /\ LET game == h[c].game
           check == TimeOutCheck(game, now)
       IN
       /\ games' = [games EXCEPT ![h[c].game_id] = MoveUpdate(@, game)]
       /\ sent' = {MoveMadeMsg(to, game, h[c].username) : to \in SessionsOf(h[c].game_id)}
       /\ h' = [h EXCEPT ![c] =
                  IF MoveResult(game) # <<>>
                  THEN [pc |-> "over_write", game_id |-> h[c].game_id,
                        result |-> MoveResult(game), next |-> "sync"]
                  ELSE IF check[1]
                  THEN [pc |-> "move_timeout", game_id |-> h[c].game_id,
                        result |-> check[2], white |-> check[3], black |-> check[4]]
                  ELSE [pc |-> "sync", game_id |-> h[c].game_id, after |-> "Move"]]
    /\ UNCHANGED <<now, conns, disconnected, timers, starters, player_info, frames, drops, told, chat_messages, conn_lock, undecoded>>

\* the same when update_one returns an error, which .ok() discards: nothing is
\* stored and handle_move goes on as after a write
MoveWriteFails(c) ==
    /\ h[c].pc = "move_write"
    /\ LET game == h[c].game
           check == TimeOutCheck(game, now)
       IN
       /\ sent' = {MoveMadeMsg(to, game, h[c].username) : to \in SessionsOf(h[c].game_id)}
       /\ h' = [h EXCEPT ![c] =
                  IF MoveResult(game) # <<>>
                  THEN [pc |-> "over_write", game_id |-> h[c].game_id,
                        result |-> MoveResult(game), next |-> "sync"]
                  ELSE IF check[1]
                  THEN [pc |-> "move_timeout", game_id |-> h[c].game_id,
                        result |-> check[2], white |-> check[3], black |-> check[4]]
                  ELSE [pc |-> "sync", game_id |-> h[c].game_id, after |-> "Move"]]
    /\ UNCHANGED <<games, now, conns, disconnected, timers, starters, player_info, frames, drops, told, chat_messages, conn_lock, undecoded>>

\* the $set document of check_time_out
TimeOutUpdate(stored, result, w, b) ==
    [stored EXCEPT !.status = "completed", !.result = result,
                   !.white_time_ms = Max0(w), !.black_time_ms = Max0(b)]

\* find_one_and_update of check_time_out with a filter on _id alone
MoveTimeOutAnyStatus(c) ==
    /\ h[c].pc = "move_timeout"
    /\ LET stored == games[h[c].game_id] IN
       /\ games' = [games EXCEPT ![h[c].game_id] =
                       TimeOutUpdate(@, h[c].result, h[c].white, h[c].black)]
       /\ sent' = UNION {{TimeUpdateMsg(to, Max0(h[c].white), Max0(h[c].black)),
                          GameCompletedMsg(to, stored)} :
                         to \in SessionsOf(h[c].game_id)}
    /\ h' = [h EXCEPT ![c] = [pc |-> "sync", game_id |-> h[c].game_id, after |-> "Move"]]
    /\ UNCHANGED <<now, conns, disconnected, timers, starters, player_info, frames, drops, told, chat_messages, conn_lock, undecoded>>

\* find_one_and_update({_id, status: "active"}, ..) of check_time_out; with no
\* options the driver returns the document as it was before the update
MoveTimeOut(c) ==
    /\ h[c].pc = "move_timeout"
    /\ LET stored == games[h[c].game_id] IN
       IF stored.status = "active"
       THEN /\ games' = [games EXCEPT ![h[c].game_id] =
                           TimeOutUpdate(@, h[c].result, h[c].white, h[c].black)]
            /\ sent' = UNION {{TimeUpdateMsg(to, Max0(h[c].white), Max0(h[c].black)),
                               GameCompletedMsg(to, stored)} :
                              to \in SessionsOf(h[c].game_id)}
       ELSE /\ games' = games
            /\ sent' = {}
    /\ h' = [h EXCEPT ![c] = [pc |-> "sync", game_id |-> h[c].game_id, after |-> "Move"]]
    /\ UNCHANGED <<now, conns, disconnected, timers, starters, player_info, frames, drops, told, chat_messages, conn_lock, undecoded>>

\* --------------------------------------------------------- handle_game_over
\* the $set document of handle_game_over
GameOverUpdate(stored, result) ==
    [stored EXCEPT !.status = "completed", !.result = result]

\* the result texts a GameOver frame carries
GameOverInputs == {<<"1-0">>, <<"White", "wins", "by", "checkmate">>}

\* GameOver frame: find_one and, when the game exists, the unconditional update
GameOverFrame(c, game_id, result) ==
    /\ h[c].pc = "idle"
    /\ frames < MaxFrames
    /\ frames' = frames + 1
    /\ IF games[game_id] # NoGame
       THEN /\ games' = [games EXCEPT ![game_id] = GameOverUpdate(@, result)]
            /\ h' = [h EXCEPT ![c] = [pc |-> "over_notify", game_id |-> game_id,
                                      next |-> "idle", result |-> result]]
       ELSE /\ games' = games
            /\ h' = h
    /\ sent' = {}
    /\ UNCHANGED <<now, conns, disconnected, timers, starters, player_info, drops, told, chat_messages, conn_lock, undecoded>>

\* handle_game_over called by handle_move for a terminal position
MoveGameOver(c) ==
    /\ h[c].pc = "over_write"
    /\ games' = [games EXCEPT ![h[c].game_id] = GameOverUpdate(@, h[c].result)]
    /\ h' = [h EXCEPT ![c] = [pc |-> "over_notify", game_id |-> h[c].game_id,
                              next |-> h[c].next, result |-> h[c].result]]
    /\ sent' = {}
    /\ UNCHANGED <<now, conns, disconnected, timers, starters, player_info, frames, drops, told, chat_messages, conn_lock, undecoded>>

\* the second find_one of handle_game_over and the GameCompleted broadcast
GameOverNotify(c) ==
    /\ h[c].pc = "over_notify"
    /\ sent' = {GameCompletedMsg(to, games[h[c].game_id]) : to \in SessionsOf(h[c].game_id)}
    /\ h' = [h EXCEPT ![c] = IF h[c].next = "sync"
                             THEN [pc |-> "sync", game_id |-> h[c].game_id, after |-> "Move"]
                             ELSE Idle]
    /\ UNCHANGED <<games, now, conns, disconnected, timers, starters, player_info, frames, drops, told, chat_messages, conn_lock, undecoded>>

\* ------------------------------------------------------------ handle_resign
\* the $set document of handle_resign
ResignUpdate(stored, username) ==
    [stored EXCEPT !.status = "completed", !.result = <<username, "resigned">>]

\* Resign frame: find_one; the winner of GameResigned comes from this read
ResignRead(c, game_id, username) ==
    /\ h[c].pc = "idle"
    /\ frames < MaxFrames
    /\ frames' = frames + 1
    /\ LET game == games[game_id] IN
       IF game # NoGame
       THEN h' = [h EXCEPT ![c] =
                    [pc |-> "resign_write", game_id |-> game_id, username |-> username,
                     winner |-> IF game.white_player = username
                                THEN game.black_player ELSE game.white_player]]
       ELSE h' = h
    /\ sent' = {}
    /\ UNCHANGED <<games, now, conns, disconnected, timers, starters, player_info, drops, told, chat_messages, conn_lock, undecoded>>

\* games.update_one({_id}, ..) of handle_resign
ResignWrite(c) ==
    /\ h[c].pc = "resign_write"
    /\ games' = [games EXCEPT ![h[c].game_id] = ResignUpdate(@, h[c].username)]
    /\ h' = [h EXCEPT ![c].pc = "resign_notify"]
    /\ sent' = {}
    /\ UNCHANGED <<now, conns, disconnected, timers, starters, player_info, frames, drops, told, chat_messages, conn_lock, undecoded>>

\* the second find_one of handle_resign, GameResigned and GameCompleted
ResignNotify(c) ==
    /\ h[c].pc = "resign_notify"
    /\ sent' = UNION {{[to |-> to, type |-> "GameResigned", username |-> h[c].username,
                        winner |-> h[c].winner],
                       GameCompletedMsg(to, games[h[c].game_id])} :
                      to \in SessionsOf(h[c].game_id)}
    /\ h' = [h EXCEPT ![c] = Idle]
    /\ UNCHANGED <<games, now, conns, disconnected, timers, starters, player_info, frames, drops, told, chat_messages, conn_lock, undecoded>>

\* -------------------------------------------------------------- draw offers
\* OfferDraw frame: find_one and the status check
DrawOfferRead(c, game_id, username) ==
    /\ h[c].pc = "idle"
    /\ frames < MaxFrames
    /\ frames' = frames + 1
    /\ LET game == games[game_id] IN
       IF game # NoGame /\ game.status = "active"
       THEN h' = [h EXCEPT ![c] = [pc |-> "offer_write", game_id |-> game_id,
                                   username |-> username]]
       ELSE h' = h
    /\ sent' = {}
    /\ UNCHANGED <<games, now, conns, disconnected, timers, starters, player_info, drops, told, chat_messages, conn_lock, undecoded>>

\* the registry entries of the match other than the sender's
OtherSessionsOf(game_id, username) ==
    IF TryLock
    THEN {conns[p].id : p \in {q \in Players : conns[q] # NoConn /\ conns[q].game_id = game_id
                                                /\ conns[q].username # username}}
    ELSE {}

\* the update of handle_draw_offer and DrawOffered to the other sessions
DrawOfferWrite(c) ==
    /\ h[c].pc = "offer_write"
    /\ games' = [games EXCEPT ![h[c].game_id].draw_offered_by = h[c].username]
    /\ sent' = {[to |-> to, type |-> "DrawOffered", by_username |-> h[c].username] :
                   to \in OtherSessionsOf(h[c].game_id, h[c].username)}
    /\ h' = [h EXCEPT ![c] = Idle]
    /\ UNCHANGED <<now, conns, disconnected, timers, starters, player_info, frames, drops, told, chat_messages, conn_lock, undecoded>>

\* the check of handle_draw_accept with the offerer's own accept let through
DrawAcceptableOwnOffer(game, username) ==
    game.draw_offered_by # None

\* the check of handle_draw_accept on the document it read
DrawAcceptable(game, username) ==
    game.draw_offered_by # None /\ game.draw_offered_by # username

\* AcceptDraw frame: find_one and the pending-offer check
DrawAcceptRead(c, game_id, username) ==
    /\ h[c].pc = "idle"
    /\ frames < MaxFrames
    /\ frames' = frames + 1
    /\ LET game == games[game_id] IN
       IF game # NoGame /\ DrawAcceptable(game, username)
       THEN h' = [h EXCEPT ![c] = [pc |-> "accept_write", game_id |-> game_id]]
       ELSE h' = h
    /\ sent' = {}
    /\ UNCHANGED <<games, now, conns, disconnected, timers, starters, player_info, drops, told, chat_messages, conn_lock, undecoded>>

\* the $set document of handle_draw_accept
DrawAcceptUpdate(stored) ==
    [stored EXCEPT !.status = "completed", !.result = <<"Draw", "by", "agreement">>,
                   !.draw_offered_by = None]

\* games.update_one({_id}, ..) of handle_draw_accept
DrawAcceptWrite(c) ==
    /\ h[c].pc = "accept_write"
    /\ games' = [games EXCEPT ![h[c].game_id] = DrawAcceptUpdate(@)]
    /\ h' = [h EXCEPT ![c] = [pc |-> "over_notify", game_id |-> h[c].game_id,
                              next |-> "idle"]]
    /\ sent' = {}
    /\ UNCHANGED <<now, conns, disconnected, timers, starters, player_info, frames, drops, told, chat_messages, conn_lock, undecoded>>

\* DeclineDraw frame: the unconditional update and DrawDeclined to the others
DrawDecline(c, game_id, username) ==
    /\ h[c].pc = "idle"
    /\ frames < MaxFrames
    /\ frames' = frames + 1
    /\ games' = IF games[game_id] # NoGame
                THEN [games EXCEPT ![game_id].draw_offered_by = None]
                ELSE games
    /\ sent' = {[to |-> to, type |-> "DrawDeclined", by_username |-> username] :
                   to \in OtherSessionsOf(game_id, username)}
    /\ UNCHANGED <<now, conns, disconnected, timers, starters, h, player_info, drops, told, chat_messages, conn_lock, undecoded>>

\* handle_time_sync gets as far as try_lock: the game is active and has both
\* players
TimeSyncReachesLock(game_id) ==
    /\ games[game_id] # NoGame
    /\ games[game_id].status = "active"
    /\ games[game_id].white_player # None
    /\ games[game_id].black_player # None

\* RequestTimeSync frame: handle_time_sync; when try_lock succeeds the guard
\* is held while the TimeUpdate goes to the sinks of the match
TimeSync(c, game_id) ==
    /\ h[c].pc = "idle"
    /\ frames < MaxFrames
    /\ frames' = frames + 1
    /\ sent' = TimeSyncMsgs(game_id)
    /\ IF TimeSyncReachesLock(game_id) /\ TryLock
       THEN /\ conn_lock' = TRUE
            /\ h' = [h EXCEPT ![c] = [pc |-> "sync_locked", game_id |-> game_id]]
       ELSE /\ conn_lock' = conn_lock
            /\ h' = h
    /\ UNCHANGED <<games, now, conns, disconnected, timers, starters, player_info, drops, told, chat_messages, undecoded>>

\* the guard of handle_time_sync goes out of scope
TimeSyncRelease(c) ==
    /\ h[c].pc = "sync_locked"
    /\ conn_lock' = FALSE
    /\ h' = [h EXCEPT ![c] = Idle]
    /\ sent' = {}
    /\ UNCHANGED <<games, now, conns, disconnected, timers, starters, player_info, frames, drops, told, chat_messages, undecoded>>

\* ------------------------------------------------------ handle_chat_message
\* the recipient of a ChatMessage frame: a player, or None for a public one
Recipients == Players \cup {None}

\* the ChatMessage document: a fresh id, visible_to_all when no recipient
ChatRecord(id, game_id, username, recipient) ==
    [id |-> id, game_id |-> game_id, sender |-> username,
     visible_to_all |-> (recipient = None), recipient |-> recipient]

\* the registry keys handle_chat_message sends to, every entry of the match
\* whatever the recipient
ChatSessionsWholeMatch(game_id, username, recipient) ==
    IF TryLock
    THEN {p \in Players : conns[p] # NoConn /\ conns[p].game_id = game_id}
    ELSE {}

\* the registry keys handle_chat_message sends to under try_lock
ChatSessions(game_id, username, recipient) ==
    IF TryLock
    THEN {p \in Players :
             /\ conns[p] # NoConn
             /\ conns[p].game_id = game_id
             /\ \/ recipient = None
                \/ conns[p].username = recipient
                \/ conns[p].username = username}
    ELSE {}

\* ChatMessageReceived as put on the sink of the registry entry of player p
ChatMessageReceived(p, record) ==
    [to |-> conns[p].id, session |-> p, type |-> "ChatMessageReceived",
     id |-> record.id, game_id |-> record.game_id, sender |-> record.sender,
     is_private |-> (record.recipient # None), recipient |-> record.recipient]

\* ChatMessage frame: insert_one, which may fail, and on success the sends
handle_chat_message(c, game_id, username, recipient, inserted) ==
    /\ h[c].pc = "idle"
    /\ frames < MaxFrames
    /\ frames' = frames + 1
    /\ LET record == ChatRecord(Len(chat_messages) + 1, game_id, username, recipient) IN
       IF inserted
       THEN /\ chat_messages' = Append(chat_messages, record)
            /\ sent' = {ChatMessageReceived(p, record) :
                           p \in ChatSessions(game_id, username, recipient)}
       ELSE /\ chat_messages' = chat_messages
            /\ sent' = {}
    /\ UNCHANGED <<games, now, conns, disconnected, timers, starters, h, player_info, drops, told, conn_lock, undecoded>>

\* ------------------------------------------------------- undecodable frames
\* the fields serde needs for each variant of ClientMessage
RequiredFields ==
    [JoinGame |-> {"game_id", "username", "time_control", "increment"},
     Move |-> {"game_id", "username", "from", "to", "pgn", "fen", "timestamp"},
     RequestTimeSync |-> {"game_id"},
     GameOver |-> {"game_id", "result"},
     Resign |-> {"game_id", "username"},
     OfferDraw |-> {"game_id", "username"},
     AcceptDraw |-> {"game_id", "username"},
     DeclineDraw |-> {"game_id", "username"},
     ChatMessage |-> {"game_id", "username", "content"}]

\* serde_json::from_str::<ClientMessage>(text) is Ok: the tag names a variant
\* and the fields of the variant are there
Decodes(text) ==
    /\ text.type \in DOMAIN RequiredFields
    /\ RequiredFields[text.type] \subseteq text.fields

\* frame texts: an unknown tag, a Resign without username, a JoinGame without
\* its time control, and a Resign that decodes
FrameTexts ==
    {[type |-> "Ping", fields |-> {}],
     [type |-> "Resign", fields |-> {"game_id"}],
     [type |-> "JoinGame", fields |-> {"game_id", "username"}],
     [type |-> "Resign", fields |-> {"game_id", "username"}]}

\* the Err arm of the decode taken for a transport error: the loop breaks and
\* the connection is cleaned up
DropFrameBreaksLoop(c, text) ==
    /\ h[c].pc = "idle"
    /\ frames < MaxFrames
    /\ ~Decodes(text)
    /\ frames' = frames + 1
    /\ undecoded' = [undecoded EXCEPT ![c] = @ + 1]
    /\ conns' = IF TryLock
                THEN [p \in Players |-> IF conns[p] # NoConn /\ conns[p].id = c
                                         THEN NoConn ELSE conns[p]]
                ELSE conns
    /\ h' = [h EXCEPT ![c] = Closed]
    /\ sent' = {}
    /\ UNCHANGED <<games, now, disconnected, timers, starters, player_info, drops, told, chat_messages, conn_lock>>

\* a text frame that does not decode: the Err arm logs it and the loop goes on
DropFrame(c, text) ==
    /\ h[c].pc = "idle"
    /\ frames < MaxFrames
    /\ ~Decodes(text)
    /\ frames' = frames + 1
    /\ undecoded' = [undecoded EXCEPT ![c] = @ + 1]
    /\ sent' = {}
    /\ UNCHANGED <<games, now, conns, disconnected, timers, starters, h, player_info, drops, told, chat_messages, conn_lock>>

\* ------------------------------------------- disconnection and abandonment
\* handle_player_disconnection: a record and a sleeping task, unless the
\* player already has a record
NoteDisconnection(c, game_id, username) ==
    IF disconnected[username] = NoInfo
    THEN /\ disconnected' = [disconnected EXCEPT ![username] =
                               [game_id |-> game_id, disconnect_time |-> now,
                                reconnect_window |-> GraceTicks]]
         /\ timers' = timers \cup {[task |-> c, username |-> username, game_id |-> game_id,
                                    deadline |-> now + GraceTicks, pc |-> "sleep",
                                    winner |-> None]}
    ELSE /\ disconnected' = disconnected
         /\ timers' = timers

\* a cleanup that drops the closing connection's player by name
CloseByPlayer(c) ==
    /\ h[c].pc = "idle"
    /\ IF player_info[c] # NoInfo
       THEN NoteDisconnection(c, player_info[c].game_id, player_info[c].username)
       ELSE UNCHANGED <<disconnected, timers>>
    /\ conns' = IF TryLock
                THEN [p \in Players |-> IF player_info[c] # NoInfo /\ p = player_info[c].username
                                         THEN NoConn ELSE conns[p]]
                ELSE conns
    /\ h' = [h EXCEPT ![c] = Closed]
    /\ sent' = {}
    /\ drops' = IF player_info[c] # NoInfo /\ player_info[c].game_id = G1
                 THEN [drops EXCEPT ![player_info[c].username].open =
                                        IF @ >= 0 THEN @ ELSE now]
                 ELSE drops
    /\ UNCHANGED <<games, now, starters, player_info, frames, told, chat_messages, conn_lock, undecoded>>

\* the stream of a connection ends: handle_player_disconnection when
\* player_info is set, then conns.retain(|_, conn| conn.id != connection_id)
\* under try_lock
Close(c) ==
    /\ h[c].pc = "idle"
    /\ IF player_info[c] # NoInfo
       THEN NoteDisconnection(c, player_info[c].game_id, player_info[c].username)
       ELSE UNCHANGED <<disconnected, timers>>
    /\ conns' = IF TryLock
                THEN [p \in Players |-> IF conns[p] # NoConn /\ conns[p].id = c
                                         THEN NoConn ELSE conns[p]]
                ELSE conns
    /\ h' = [h EXCEPT ![c] = Closed]
    /\ sent' = {}
    /\ drops' = IF player_info[c] # NoInfo /\ player_info[c].game_id = G1
                 THEN [drops EXCEPT ![player_info[c].username].open =
                                        IF @ >= 0 THEN @ ELSE now]
                 ELSE drops
    /\ UNCHANGED <<games, now, starters, player_info, frames, told, chat_messages, conn_lock, undecoded>>

\* a should_abandon that also asks for the match to be active
ShouldAbandonActiveOnly(t) ==
    /\ disconnected[t.username] # NoInfo
    /\ disconnected[t.username].game_id = t.game_id
    /\ games[t.game_id] # NoGame
    /\ games[t.game_id].status = "active"

\* should_abandon of the sleeping task: the record is there and names the game
ShouldAbandon(t) ==
    /\ disconnected[t.username] # NoInfo
    /\ disconnected[t.username].game_id = t.game_id

\* the abandonment task wakes up: the check on the record and, when it is to
\* abandon, the find_one({_id, status: "active"}) of handle_abandonment
AbandonFire(t) ==
    /\ t \in timers
    /\ t.pc = "sleep"
    /\ now >= t.deadline
    /\ IF ShouldAbandon(t)
       THEN /\ disconnected' = [disconnected EXCEPT ![t.username] = NoInfo]
            /\ LET game == games[t.game_id] IN
               IF game # NoGame /\ game.status = "active"
               THEN timers' = (timers \ {t}) \cup
                       {[t EXCEPT !.pc = "update",
                                  !.winner = IF game.white_player = t.username
                                             THEN game.black_player
                                             ELSE game.white_player]}
               ELSE timers' = timers \ {t}
       ELSE /\ disconnected' = disconnected
            /\ timers' = timers \ {t}
    /\ sent' = {}
    /\ UNCHANGED <<games, now, conns, starters, h, player_info, frames, drops, told, chat_messages, conn_lock, undecoded>>

\* the $set document of handle_abandonment
AbandonUpdate(stored, username, winner) ==
    [stored EXCEPT !.status = "completed", !.result = <<username, "abandoned">>,
                   !.reason = "abandonment", !.winner = winner]

\* games.update_one({_id, status: "active"}, ..) of handle_abandonment and,
\* when it modified the document, the GameCompleted broadcast
AbandonWrite(t) ==
    /\ t \in timers
    /\ t.pc = "update"
    /\ timers' = timers \ {t}
    /\ IF games[t.game_id].status = "active"
       THEN /\ games' = [games EXCEPT ![t.game_id] = AbandonUpdate(@, t.username, t.winner)]
            /\ sent' = {GameCompletedMsg(to, AbandonUpdate(games[t.game_id], t.username, t.winner)) :
                           to \in SessionsOf(t.game_id)}
       ELSE /\ games' = games
            /\ sent' = {}
    /\ UNCHANGED <<now, conns, disconnected, starters, h, player_info, frames, drops, told, chat_messages, conn_lock, undecoded>>

\* ----------------------------------------------------------- specifications
\* Lobby: three clients, one connection each, join the match just created
\* and play on it while the spawned start_game_timer sleeps and wakes.
Owner == <<"alice", "bob", "carol">>
LobbyConns == {1, 2, 3}

LobbyTick ==
    /\ now < MaxLobbyTime
    /\ Tick

Next ==
    \/ \E c \in LobbyConns, g \in GameIds : JoinRead(c, g, Owner[c])
    \/ \E c \in LobbyConns : JoinWrite(c)
    \/ \E c \in LobbyConns : JoinReread(c)
    \/ \E c \in LobbyConns : TrailingSync(c)
    \/ \E c \in LobbyConns, r \in GameOverInputs : GameOverFrame(c, G1, r)
    \/ \E c \in LobbyConns : GameOverNotify(c)
    \/ \E c \in LobbyConns, mv \in MoveInputs, fen \in FenInputs :
          MoveRead(c, G1, Owner[c], mv, fen)
    \/ \E c \in LobbyConns : MoveWrite(c)
    \/ \E c \in LobbyConns : MoveGameOver(c)
    \/ \E t \in starters : StartGameTimer(t)
    \/ LobbyTick

Spec == Init /\ [][Next]_vars

\* Play: alice (white, connection 1) and bob (black, connection 2) have joined
\* and start_game_timer has stamped the clock start; connections 3 and 4 are
\* further connections of alice's client that have not joined.
PlayOwner == <<"alice", "bob", "alice", "alice">>

ActiveGame(tc, inc) ==
    [NewGame(G1, tc, inc) EXCEPT !.white_player = "alice", !.black_player = "bob",
                                 !.status = "active"]

InitPlay ==
    /\ now = 0
    /\ \E tc \in TimeControls, inc \in Increments :
          games = [g \in GameIds |-> IF g = G1 THEN ActiveGame(tc, inc) ELSE NoGame]
    /\ conns = [p \in Players |->
                  IF p = "alice" THEN [id |-> 1, game_id |-> G1, username |-> p, color |-> "white"]
                  ELSE IF p = "bob" THEN [id |-> 2, game_id |-> G1, username |-> p, color |-> "black"]
                  ELSE NoConn]
    /\ disconnected = [p \in Players |-> NoInfo]
    /\ timers = {}
    /\ starters = {}
    /\ h = [c \in Conns |-> Idle]
    /\ player_info = [c \in Conns |->
                        IF c \in {3, 4} THEN NoInfo
                        ELSE [game_id |-> G1, username |-> PlayOwner[c]]]
    /\ sent = {}
    /\ frames = 0
    /\ drops = [p \in Players |-> NoDrop]
    /\ told = [p \in Players |-> IF p = "alice" THEN "white"
                                  ELSE IF p = "bob" THEN "black" ELSE None]
    /\ chat_messages = <<>>
    /\ conn_lock = FALSE
    /\ undecoded = [c \in Conns |-> 0]

PlayConns == {1, 2, 3}

NextPlay ==
    \/ \E c \in PlayConns, mv \in MoveInputs, fen \in FenInputs :
          MoveRead(c, G1, PlayOwner[c], mv, fen)
    \/ \E c \in PlayConns : MoveWrite(c)
    \/ \E c \in PlayConns : MoveTimeOut(c)
    \/ \E c \in PlayConns : MoveGameOver(c)
    \/ \E c \in PlayConns : GameOverNotify(c)
    \/ \E c \in PlayConns : TrailingSync(c)
    \/ \E c \in PlayConns : ResignRead(c, G1, PlayOwner[c])
    \/ \E c \in PlayConns : ResignWrite(c)
    \/ \E c \in PlayConns : ResignNotify(c)
    \/ Tick

SpecPlay == InitPlay /\ [][NextPlay]_vars

\* Drop: the same start; alice's connections close and rejoin while bob's
\* connection stays open and silent.
DropConns == {1, 3, 4}

NextDrop ==
    \/ \E c \in DropConns : Close(c)
    \/ \E c \in DropConns, g \in GameIds : JoinRead(c, g, PlayOwner[c])
    \/ \E c \in DropConns : TrailingSync(c)
    \/ \E t \in timers : AbandonFire(t)
    \/ \E t \in timers : AbandonWrite(t)
    \/ Tick

SpecDrop == InitPlay /\ [][NextDrop]_vars

\* Endings: an active match whose white player is alice or timea and whose
\* black player is bob, each on one connection; the two play, resign, offer,
\* accept and decline draws, and let time pass.
EndWhites == {"alice", "timea"}
EndConns == {1, 2}
\* the positions of the Move frames of the endings
EndFens == {FenPlain, FenMate, FenStale, FenBare}

InitEnd ==
    /\ now = 0
    /\ \E tc \in TimeControls, inc \in Increments, w \in EndWhites :
          /\ games = [g \in GameIds |->
                        IF g = G1
                        THEN [NewGame(G1, tc, inc) EXCEPT !.white_player = w,
                                                          !.black_player = "bob",
                                                          !.status = "active"]
                        ELSE NoGame]
          /\ conns = [p \in Players |->
                        IF p = w
                        THEN [id |-> 1, game_id |-> G1, username |-> p, color |-> "white"]
                        ELSE IF p = "bob"
                        THEN [id |-> 2, game_id |-> G1, username |-> p, color |-> "black"]
                        ELSE NoConn]
          /\ player_info = [c \in Conns |->
                              IF c = 1 THEN [game_id |-> G1, username |-> w]
                              ELSE IF c = 2 THEN [game_id |-> G1, username |-> "bob"]
                              ELSE NoInfo]
          /\ told = [p \in Players |-> IF p = w THEN "white"
                                        ELSE IF p = "bob" THEN "black" ELSE None]
    /\ disconnected = [p \in Players |-> NoInfo]
    /\ timers = {}
    /\ starters = {}
    /\ h = [c \in Conns |-> Idle]
    /\ sent = {}
    /\ frames = 0
    /\ drops = [p \in Players |-> NoDrop]
    /\ chat_messages = <<>>
    /\ conn_lock = FALSE
    /\ undecoded = [c \in Conns |-> 0]

NextEnd ==
    \/ \E c \in EndConns, mv \in MoveInputs, fen \in EndFens :
          MoveRead(c, G1, player_info[c].username, mv, fen)
    \/ \E c \in EndConns : MoveWrite(c)
    \/ \E c \in EndConns : MoveTimeOut(c)
    \/ \E c \in EndConns : MoveGameOver(c)
    \/ \E c \in EndConns : GameOverNotify(c)
    \/ \E c \in EndConns : TrailingSync(c)
    \/ \E c \in EndConns : ResignRead(c, G1, player_info[c].username)
    \/ \E c \in EndConns : ResignWrite(c)
    \/ \E c \in EndConns : ResignNotify(c)
    \/ \E c \in EndConns : DrawOfferRead(c, G1, player_info[c].username)
    \/ \E c \in EndConns : DrawOfferWrite(c)
    \/ \E c \in EndConns : DrawAcceptRead(c, G1, player_info[c].username)
    \/ \E c \in EndConns : DrawAcceptWrite(c)
    \/ \E c \in EndConns : DrawDecline(c, G1, player_info[c].username)
    \/ Tick

SpecEnd == InitEnd /\ [][NextEnd]_vars

\* Guest: both slots of the match are taken by alice and bob, who are connected;
\* the status is active, or waiting as the overlapping joins of three players
\* leave it.  carol, who holds no slot, sends JoinGame on two connections
\* while alice and bob may resign.
GuestOwner == <<"alice", "bob", "carol", "carol">>
GuestConns == {3, 4}
SeatedConns == {1, 2}
FullStatuses == {"active", "waiting"}

InitGuest ==
    /\ now = 0
    /\ \E tc \in TimeControls, inc \in Increments, st \in FullStatuses :
          games = [g \in GameIds |->
                     IF g = G1 THEN [ActiveGame(tc, inc) EXCEPT !.status = st] ELSE NoGame]
    /\ conns = [p \in Players |->
                  IF p = "alice"
                  THEN [id |-> 1, game_id |-> G1, username |-> p, color |-> "white"]
                  ELSE IF p = "bob"
                  THEN [id |-> 2, game_id |-> G1, username |-> p, color |-> "black"]
                  ELSE NoConn]
    /\ disconnected = [p \in Players |-> NoInfo]
    /\ timers = {}
    /\ starters = {}
    /\ h = [c \in Conns |-> Idle]
    /\ player_info = [c \in Conns |->
                        IF c \in GuestConns THEN NoInfo
                        ELSE [game_id |-> G1, username |-> GuestOwner[c]]]
    /\ sent = {}
    /\ frames = 0
    /\ drops = [p \in Players |-> NoDrop]
    /\ told = [p \in Players |-> IF p = "alice" THEN "white"
                                  ELSE IF p = "bob" THEN "black" ELSE None]
    /\ chat_messages = <<>>
    /\ conn_lock = FALSE
    /\ undecoded = [c \in Conns |-> 0]

NextGuest ==
    \/ \E c \in GuestConns, g \in GameIds : JoinRead(c, g, GuestOwner[c])
    \/ \E c \in GuestConns : TrailingSync(c)
    \/ \E c \in SeatedConns : ResignRead(c, G1, GuestOwner[c])
    \/ \E c \in SeatedConns : ResignWrite(c)
    \/ \E c \in SeatedConns : ResignNotify(c)

SpecGuest == InitGuest /\ [][NextGuest]_vars

\* Chat: two active matches, alice and bob on g1, carol and timea on g2, each
\* player on one connection.  alice and carol chat, in public and in private,
\* into either match and send texts that do not decode; bob's connection may
\* close and timea's asks for the clocks of g2.
ChatOwner == <<"alice", "bob", "carol", "timea">>
ChatConns == {1, 3}
ChatRecipients == {None, "bob", "carol"}
ChatGameOf(p) == IF p \in {"alice", "bob"} THEN G1 ELSE G2
ChatColorOf(p) == IF p \in {"alice", "carol"} THEN "white" ELSE "black"

InitChat ==
    /\ now = 0
    /\ \E tc \in TimeControls, inc \in Increments :
          games = [g \in GameIds |->
                     IF g = G1 THEN ActiveGame(tc, inc)
                     ELSE [NewGame(G2, tc, inc) EXCEPT !.white_player = "carol",
                                                       !.black_player = "timea",
                                                       !.status = "active"]]
    /\ conns = [p \in Players |->
                  [id |-> CHOOSE c \in Conns : ChatOwner[c] = p, game_id |-> ChatGameOf(p),
                   username |-> p, color |-> ChatColorOf(p)]]
    /\ disconnected = [p \in Players |-> NoInfo]
    /\ timers = {}
    /\ starters = {}
    /\ h = [c \in Conns |-> Idle]
    /\ player_info = [c \in Conns |->
                        [game_id |-> ChatGameOf(ChatOwner[c]), username |-> ChatOwner[c]]]
    /\ sent = {}
    /\ frames = 0
    /\ drops = [p \in Players |-> NoDrop]
    /\ told = [p \in Players |-> IF ChatGameOf(p) = G1 THEN ChatColorOf(p) ELSE None]
    /\ chat_messages = <<>>
    /\ conn_lock = FALSE
    /\ undecoded = [c \in Conns |-> 0]

NextChat ==
    \/ \E c \in ChatConns, g \in GameIds, r \in ChatRecipients, inserted \in BOOLEAN :
          handle_chat_message(c, g, ChatOwner[c], r, inserted)
    \/ \E c \in ChatConns, text \in FrameTexts : DropFrame(c, text)
    \/ Close(2)
    \/ TimeSync(4, G2)
    \/ TimeSyncRelease(4)

SpecChat == InitChat /\ [][NextChat]_vars

\* Contention: the match of alice (connection 1) and bob (connection 2) is
\* active.  alice moves and resigns, bob sends GameOver, alice's client joins
\* again on connection 3, and connection 4 asks for the clocks, holding the
\* registry lock while its TimeUpdate goes out.
LockMover == 1
LockReporter == 2
LockJoiner == 3
LockSyncer == 4

NextLock ==
    \/ \E mv \in MoveInputs, fen \in FenInputs :
          MoveRead(LockMover, G1, PlayOwner[LockMover], mv, fen)
    \/ MoveWrite(LockMover)
    \/ MoveTimeOut(LockMover)
    \/ MoveGameOver(LockMover)
    \/ ResignRead(LockMover, G1, PlayOwner[LockMover])
    \/ ResignWrite(LockMover)
    \/ ResignNotify(LockMover)
    \/ \E r \in GameOverInputs : GameOverFrame(LockReporter, G1, r)
    \/ \E c \in {LockMover, LockReporter} : GameOverNotify(c)
    \/ JoinRead(LockJoiner, G1, PlayOwner[LockJoiner])
    \/ \E c \in {LockMover, LockJoiner} : TrailingSync(c)
    \/ TimeSync(LockSyncer, G1)
    \/ TimeSyncRelease(LockSyncer)
    \/ Tick

SpecLock == InitPlay /\ [][NextLock]_vars

\* Leave: the match of alice (connection 1) and bob (connection 2) is active.
\* alice moves and resigns, bob's connection may close, and carol, who holds
\* no slot, sends JoinGame on connection 3 and closes it; the abandonment
\* tasks of the closed connections wake up while time passes.
LeavePlayer == 1
LeaveGuest == 3
LeaveClosers == {2, 3}

NextLeave ==
    \/ \E mv \in MoveInputs : MoveRead(LeavePlayer, G1, GuestOwner[LeavePlayer], mv, FenPlain)
    \/ MoveWrite(LeavePlayer)
    \/ MoveTimeOut(LeavePlayer)
    \/ ResignRead(LeavePlayer, G1, GuestOwner[LeavePlayer])
    \/ ResignWrite(LeavePlayer)
    \/ ResignNotify(LeavePlayer)
    \/ \E g \in GameIds : JoinRead(LeaveGuest, g, GuestOwner[LeaveGuest])
    \/ \E c \in {LeavePlayer, LeaveGuest} : TrailingSync(c)
    \/ \E c \in LeaveClosers : Close(c)
    \/ \E t \in timers : AbandonFire(t)
    \/ \E t \in timers : AbandonWrite(t)
    \/ Tick

SpecLeave == InitPlay /\ [][NextLeave]_vars

\* Moves: the match of alice (connection 1) and bob (connection 2) is active
\* and both are registered.  They send Move frames whose position is plain,
\* a checkmate, or one the rules engine cannot parse; the store may fail the
\* write of a move; time passes.
MoveConns == {1, 2}
MoveFens == {FenPlain, FenMate, FenBad}

NextMove ==
    \/ \E c \in MoveConns, mv \in MoveInputs, fen \in MoveFens :
          MoveRead(c, G1, PlayOwner[c], mv, fen)
    \/ \E c \in MoveConns : MoveWrite(c)
    \/ \E c \in MoveConns : MoveWriteFails(c)
    \/ \E c \in MoveConns : MoveTimeOut(c)
    \/ \E c \in MoveConns : MoveGameOver(c)
    \/ \E c \in MoveConns : GameOverNotify(c)
    \/ \E c \in MoveConns : TrailingSync(c)
    \/ Tick

SpecMove == InitPlay /\ [][NextMove]_vars

\* Names: two active matches as in Chat.  The connection on which alice joined
\* g1 and the one on which carol joined g2 send Move, Resign, OfferDraw,
\* AcceptDraw and GameOver frames that name either match and alice or bob: the
\* frame's fields are handed to the handlers as they come.
NameConns == {1, 3}
FrameNames == {"alice", "bob"}

NextNames ==
    \/ \E c \in NameConns, g \in GameIds, u \in FrameNames, mv \in MoveInputs :
          MoveRead(c, g, u, mv, FenPlain)
    \/ \E c \in NameConns : MoveWrite(c)
    \/ \E c \in NameConns : MoveTimeOut(c)
    \/ \E c \in NameConns : TrailingSync(c)
    \/ \E c \in NameConns, g \in GameIds, u \in FrameNames : ResignRead(c, g, u)
    \/ \E c \in NameConns : ResignWrite(c)
    \/ \E c \in NameConns : ResignNotify(c)
    \/ \E c \in NameConns, g \in GameIds, u \in FrameNames : DrawOfferRead(c, g, u)
    \/ \E c \in NameConns : DrawOfferWrite(c)
    \/ \E c \in NameConns, g \in GameIds, u \in FrameNames : DrawAcceptRead(c, g, u)
    \/ \E c \in NameConns : DrawAcceptWrite(c)
    \/ \E c \in NameConns, g \in GameIds, result \in GameOverInputs : GameOverFrame(c, g, result)
    \/ \E c \in NameConns : GameOverNotify(c)
    \/ Tick

SpecNames == InitChat /\ [][NextNames]_vars

\* Grace: the steps of Drop with the scheduling of the runtime: time passes,
\* and an abandonment task whose sleep is over gets to run.  A stream ends
\* only while the end of its grace window is within the time modelled.
TimedClose(c) ==
    /\ now + GraceTicks <= MaxTime
    /\ Close(c)

NextGrace ==
    \/ \E c \in DropConns : TimedClose(c)
    \/ \E c \in DropConns, g \in GameIds : JoinRead(c, g, PlayOwner[c])
    \/ \E c \in DropConns : TrailingSync(c)
    \/ \E t \in timers : AbandonFire(t)
    \/ \E t \in timers : AbandonWrite(t)
    \/ Tick

FairGrace ==
    /\ WF_vars(Tick)
    /\ WF_vars(\E t \in timers : AbandonFire(t))

SpecGrace == InitPlay /\ [][NextGrace]_vars /\ FairGrace

\* ------------------------------------------------------------------ claims
Rank(status) ==
    CASE status = "waiting" -> 0
      [] status = "active" -> 1
      [] status = "completed" -> 2

TurnHolder(game) ==
    IF game.turn = "white" THEN game.white_player ELSE game.black_player

MoveMadeIn(msgs) == {m \in msgs : m.type = "MoveMade"}

\* no handler is between two store operations and no spawned task is pending:
\* only a client frame, a close or the passing of time can come next
Quiet ==
    /\ \A c \in Conns : h[c].pc \in {"idle", "closed"}
    /\ timers = {}
    /\ starters = {}

AbandonedFor(p) ==
    /\ games[G1].status = "completed"
    /\ games[G1].reason = "abandonment"
    /\ games[G1].result = <<p, "abandoned">>

\* C1: the stored status of the match never steps back: not from completed to
\* active or waiting, not from active to waiting.
C1_StatusOnlyAdvances ==
    [][Rank(games'[G1].status) >= Rank(games[G1].status)]_vars

\* C2: once the match is completed, no later completion rewrites its status or
\* its recorded result.
C2_ResultWrittenOnce ==
    [][games[G1].status = "completed" =>
          /\ games'[G1].status = "completed"
          /\ games'[G1].result = games[G1].result]_vars

\* C3: once the stored status is completed, no write changes the move list,
\* the position, the turn, the clocks or the last-move timestamp.
C3_NoMoveAfterCompletion ==
    [][games[G1].status = "completed" =>
          /\ games'[G1].moves = games[G1].moves
          /\ games'[G1].fen = games[G1].fen
          /\ games'[G1].turn = games[G1].turn
          /\ games'[G1].white_time_ms = games[G1].white_time_ms
          /\ games'[G1].black_time_ms = games[G1].black_time_ms
          /\ games'[G1].last_move_timestamp = games[G1].last_move_timestamp]_vars

\* C4: a Move handler goes on to its write only if the match it read was
\* active with the named player in the slot of the side to move; a Move that
\* is turned away changes nothing in the store and sends no MoveMade; and a
\* MoveMade is only ever sent by a handler that went on to its write, in the
\* name of its player.
C4_MoveOnlyByTurnHolder ==
    [][/\ \A c \in Conns :
            (h[c].pc = "idle" /\ h'[c].pc = "move_write") =>
               /\ games[G1].status = "active"
               /\ TurnHolder(games[G1]) = h'[c].username
       /\ \A c \in Conns :
            (h[c].pc = "idle" /\ h'[c].pc = "sync") =>
               /\ games' = games
               /\ MoveMadeIn(sent') = {}
       /\ \A m \in MoveMadeIn(sent') :
            \E c \in Conns : /\ h[c].pc = "move_write"
                             /\ h'[c].pc # "move_write"
                             /\ m.by_username = h[c].username]_vars

\* C4 witness: an accepted move has been written and broadcast
C4_Witness ==
    /\ MoveMadeIn(sent) # {}
    /\ Len(games[G1].moves) > 0

\* C5: the write of every accepted Move flips the stored turn and makes the
\* stored move list one entry longer, the earlier entries kept.
C5_MoveFlipsTurnAndAppends ==
    [][\A c \in Conns :
          (h[c].pc = "move_write" /\ h'[c].pc # "move_write") =>
             /\ games'[G1].turn # games[G1].turn
             /\ Len(games'[G1].moves) = Len(games[G1].moves) + 1
             /\ SubSeq(games'[G1].moves, 1, Len(games[G1].moves)) = games[G1].moves]_vars

\* C6: both stored clocks are at least zero, and so is every clock value in a
\* MoveMade, TimeUpdate or GameCompleted message.
C6_ClocksNeverNegative ==
    /\ games[G1].white_time_ms >= 0
    /\ games[G1].black_time_ms >= 0
    /\ \A m \in sent :
          m.type \in {"MoveMade", "TimeUpdate", "GameCompleted"} =>
             m.white_time_ms >= 0 /\ m.black_time_ms >= 0

\* C6 witness: a move made after the mover's time had run out was written
\* and broadcast with the clock floored at zero
C6_Witness ==
    \E m \in MoveMadeIn(sent) :
       /\ m.white_time_ms = 0
       /\ games[G1].white_time_ms = 0
       /\ games[G1].moves = m.moves

\* C7: the match is completed by abandonment on account of a player only if
\* some disconnect of that player was not followed by a rejoin within the
\* grace window: a player whose every disconnect was followed by a rejoin in
\* time is never the one who abandoned.
C7_NoAbandonmentAfterTimelyRejoin ==
    \A p \in Players :
       AbandonedFor(p) => (drops[p].open >= 0 \/ drops[p].late)

\* C8: when a player in a slot of the match has disconnected, has not rejoined,
\* the grace window has elapsed and every abandonment task has run, the match
\* is completed by abandonment with the opponent as winner.
C8_DropEndsInAbandonment ==
    \A p \in Players :
       (/\ Quiet
        /\ p \in {games[G1].white_player, games[G1].black_player}
        /\ drops[p].open >= 0
        /\ now >= drops[p].open + GraceTicks)
       => /\ AbandonedFor(p)
          /\ games[G1].winner = IF games[G1].white_player = p
                                THEN games[G1].black_player
                                ELSE games[G1].white_player

\* the side to move has used up its clock in a match still stored as active
Flagged ==
    /\ games[G1].status = "active"
    /\ now - games[G1].last_move_timestamp >=
          (IF games[G1].turn = "white" THEN games[G1].white_time_ms
           ELSE games[G1].black_time_ms)

\* C9: a match whose side to move has run out of time does not stay active
\* once the server has nothing left to run: a poller completes it without any
\* further client message.
C9_FlaggedMatchGetsCompleted ==
    Quiet => ~Flagged

\* C10: whenever both slots of the match are filled its status is active or
\* completed, never waiting.
C10_FullMatchNotWaiting ==
    (games[G1].white_player # None /\ games[G1].black_player # None)
       => games[G1].status # "waiting"

\* the player stored in the slot of a colour of g1
SlotOf(color) ==
    IF color = "white" THEN games[G1].white_player ELSE games[G1].black_player

\* C11: two distinct players who were each sent GameJoined for the match were
\* told different colours, and each is stored in the slot of the colour told.
C11_JoinedColoursDistinct ==
    \A p, q \in Players :
       (p # q /\ told[p] # None /\ told[q] # None) =>
          /\ told[p] # told[q]
          /\ SlotOf(told[p]) = p
          /\ SlotOf(told[q]) = q

\* C12: the write of a JoinGame whose handler read the player in a slot of the
\* match changes neither slot nor the status, and no write leaves one player
\* in both slots.
C12_RejoinLeavesSlots ==
    [][/\ \A c \in Conns :
            (/\ h[c].pc = "join_write"
             /\ h'[c].pc # "join_write"
             /\ h[c].username \in {h[c].game.white_player, h[c].game.black_player})
            => /\ games'[G1].white_player = games[G1].white_player
               /\ games'[G1].black_player = games[G1].black_player
               /\ games'[G1].status = games[G1].status
       /\ games'[G1].white_player # None
            => games'[G1].white_player # games'[G1].black_player]_vars

\* a Move handler on connection c passes its checks in this step
MoveAccepted(c) == h[c].pc = "idle" /\ h'[c].pc = "move_write"

\* a Move handler on connection c performs its write in this step
MoveWritten(c) == h[c].pc = "move_write" /\ h'[c].pc # "move_write"

\* C13: an accepted Move takes the time elapsed since the stored last-move
\* timestamp off the mover's clock, floors it at zero and adds the increment
\* exactly when the list holds two or more moves after the append; it leaves
\* the other clock as read and sets the timestamp to now; its write stores
\* these three values.
C13_MoveClockArithmetic ==
    [][\A c \in Conns :
          /\ MoveAccepted(c) =>
                LET g == games[G1]
                    n == h'[c].game
                    elapsed == now - g.last_move_timestamp
                    credit == IF Len(g.moves) + 1 >= 2 THEN g.increment_ms ELSE 0
                    white_left == IF g.white_time_ms - elapsed > 0
                                  THEN g.white_time_ms - elapsed ELSE 0
                    black_left == IF g.black_time_ms - elapsed > 0
                                  THEN g.black_time_ms - elapsed ELSE 0
                IN /\ n.last_move_timestamp = now
                   /\ g.turn = "white" => /\ n.white_time_ms = white_left + credit
                                          /\ n.black_time_ms = g.black_time_ms
                   /\ g.turn = "black" => /\ n.black_time_ms = black_left + credit
                                          /\ n.white_time_ms = g.white_time_ms
          /\ MoveWritten(c) =>
                /\ games'[G1].white_time_ms = h[c].game.white_time_ms
                /\ games'[G1].black_time_ms = h[c].game.black_time_ms
                /\ games'[G1].last_move_timestamp = h[c].game.last_move_timestamp]_vars

\* C13 witness: the second move of the match, made after time had passed, was
\* written and broadcast with black's clock as stored
C13_Witness ==
    \E m \in MoveMadeIn(sent) :
       /\ Len(m.moves) = 2
       /\ games[G1].moves = m.moves
       /\ games[G1].black_time_ms = m.black_time_ms
       /\ games[G1].last_move_timestamp > 0

\* C14: a move accepted while the list holds fewer than two moves (the first
\* move of white, the first move of black) leaves the mover's clock at the time
\* left after the elapsed time, with no increment added.
C14_NoIncrementOnFirstMove ==
    [][\A c \in Conns :
          (MoveAccepted(c) /\ Len(games[G1].moves) < 2) =>
             LET g == games[G1]
                 n == h'[c].game
                 elapsed == now - g.last_move_timestamp
             IN IF g.turn = "white"
                THEN n.white_time_ms = (IF g.white_time_ms - elapsed > 0
                                        THEN g.white_time_ms - elapsed ELSE 0)
                ELSE n.black_time_ms = (IF g.black_time_ms - elapsed > 0
                                        THEN g.black_time_ms - elapsed ELSE 0)]_vars

\* the player in the other slot of g1
Opponent(p) ==
    IF games[G1].white_player = p THEN games[G1].black_player ELSE games[G1].white_player

\* the outcome token of a win of the player p of g1
WinToken(p) == IF games[G1].white_player = p THEN "1-0" ELSE "0-1"

DrawByAgreement == <<"Draw", "by", "agreement">>

\* C15: when the handler of a Resign of a player in a slot of the match sends
\* its notices, the match is completed and the GameCompleted it sends names
\* the player of the other slot as winner, with the outcome token of the
\* winner's colour and the reason resignation.
C15_ResignSummary ==
    \A r \in sent, m \in sent :
       (/\ r.type = "GameResigned"
        /\ m.type = "GameCompleted"
        /\ r.username \in {games[G1].white_player, games[G1].black_player})
       => /\ games[G1].status = "completed"
          /\ m.winner = Opponent(r.username)
          /\ m.result = WinToken(Opponent(r.username))
          /\ m.reason = "resignation"

\* C16: an AcceptDraw handler goes on to its write only if the match it read
\* holds an offer of another player; its write completes the match as a draw
\* by agreement and clears the offer; and no other step records a draw by
\* agreement.
C16_AcceptNeedsForeignOffer ==
    [][/\ \A c \in Conns :
            (h[c].pc = "idle" /\ h'[c].pc = "accept_write") =>
               /\ games[G1].draw_offered_by # None
               /\ games[G1].draw_offered_by # player_info[c].username
       /\ \A c \in Conns :
            (h[c].pc = "accept_write" /\ h'[c].pc # "accept_write") =>
               /\ games'[G1].status = "completed"
               /\ games'[G1].result = DrawByAgreement
               /\ games'[G1].draw_offered_by = None
       /\ (games'[G1].result = DrawByAgreement /\ games[G1].result # DrawByAgreement) =>
            \E c \in Conns : h[c].pc = "accept_write" /\ h'[c].pc # "accept_write"]_vars

\* C16 witness: a draw offer was accepted by the other player and the summary
\* went out
C16_Witness ==
    /\ games[G1].status = "completed"
    /\ games[G1].result = DrawByAgreement
    /\ games[G1].draw_offered_by = None
    /\ \E m \in sent : m.type = "GameCompleted"

\* C17: DrawDeclined is sent only by a step that found a draw offer pending.
C17_DeclineWithoutOfferSilent ==
    [][\A m \in sent' :
          m.type = "DrawDeclined" => games[G1].draw_offered_by # None]_vars

\* the outcome and winner that belong to a result text the server records
ExpectedOutcome(result) ==
    IF Len(result) = 2 /\ result[2] \in {"resigned", "abandoned"}
    THEN <<WinToken(Opponent(result[1])), Opponent(result[1])>>
    ELSE IF Len(result) > 1 /\ result[1] = "White" /\ result[2] = "wins"
    THEN <<"1-0", games[G1].white_player>>
    ELSE IF Len(result) > 1 /\ result[1] = "Black" /\ result[2] = "wins"
    THEN <<"0-1", games[G1].black_player>>
    ELSE IF Len(result) > 0 /\ result[1] = "Draw"
    THEN <<"1/2-1/2", None>>
    ELSE <<"*", None>>

\* C18: every GameCompleted sent for a completed match carries the outcome
\* token and the winner that belong to the result text stored for the match.
C18_SummaryMatchesResult ==
    \A m \in sent :
       (m.type = "GameCompleted" /\ games[G1].status = "completed") =>
          /\ m.result = ExpectedOutcome(games[G1].result)[1]
          /\ m.winner = ExpectedOutcome(games[G1].result)[2]

\* the handler of a JoinGame frame on connection c runs its first part in this
\* step: up to its reply, or up to its update
JoinStep(c) ==
    /\ h[c].pc = "idle"
    /\ \/ h'[c].pc = "join_write"
       \/ h'[c].pc = "sync" /\ h'[c].after = "JoinGame"

\* the match the JoinGame frame taken on connection c in this step names has
\* both slots taken, neither by the player the frame names
JoinsFullMatch(c) ==
    /\ JoinStep(c)
    /\ games[player_info'[c].game_id] # NoGame
    /\ games[player_info'[c].game_id].white_player # None
    /\ games[player_info'[c].game_id].black_player # None
    /\ games[player_info'[c].game_id].white_player # player_info'[c].username
    /\ games[player_info'[c].game_id].black_player # player_info'[c].username

\* the answer claimed for a JoinGame on a full match: GameFull alone, no write,
\* no registry entry for the player
AnsweredGameFull(c) ==
    /\ sent' = {SimpleMsg(c, "GameFull")}
    /\ games' = games
    /\ conns'[player_info'[c].username] = conns[player_info'[c].username]
    /\ h'[c].pc = "sync"

\* C19: JoinGame by a player in neither slot of a match whose two slots are
\* taken is answered with GameFull, writes nothing and registers no session.
C19_FullMatchAnswersGameFull ==
    [][\A c \in Conns : JoinsFullMatch(c) => AnsweredGameFull(c)]_vars

\* C19 as amended: the same for a match that is waiting or active.
C19_OpenFullMatchAnswersGameFull ==
    [][\A c \in Conns :
          (JoinsFullMatch(c) /\ games[player_info'[c].game_id].status # "completed")
             => AnsweredGameFull(c)]_vars

\* C19 witness: carol was answered GameFull on a match held by alice and bob
C19_Witness ==
    /\ \E m \in sent : m.type = "GameFull" /\ m.to \in GuestConns
    /\ games[G1].white_player = "alice"
    /\ games[G1].black_player = "bob"
    /\ games[G1].status # "completed"
    /\ conns["carol"] = NoConn

\* C20: JoinGame for an id of no match is answered with GameNotFound alone,
\* creates no match and changes no registry entry.
C20_UnknownMatchNotFound ==
    [][\A c \in Conns :
          (JoinStep(c) /\ games[player_info'[c].game_id] = NoGame) =>
             /\ sent' = {SimpleMsg(c, "GameNotFound")}
             /\ games' = games
             /\ conns' = conns
             /\ h'[c].pc = "sync"]_vars

\* C20 witness: a JoinGame for g2 was answered GameNotFound and g2 is still no
\* match
C20_Witness ==
    /\ \E m \in sent : m.type = "GameNotFound"
    /\ games[G2] = NoGame
    /\ \A p \in Players : conns[p] = NoConn \/ conns[p].game_id # G2

\* C21: JoinGame on a match whose status is completed sends the joining
\* connection GameCompleted for that match, alone, and changes neither the
\* match record nor the connection registry.
C21_CompletedJoinGetsSummary ==
    [][\A c \in Conns :
          (/\ JoinStep(c)
           /\ games[player_info'[c].game_id] # NoGame
           /\ games[player_info'[c].game_id].status = "completed") =>
             /\ \E m \in sent' : /\ sent' = {m}
                                 /\ m.type = "GameCompleted"
                                 /\ m.to = c
                                 /\ m.game_id = player_info'[c].game_id
             /\ games' = games
             /\ conns' = conns
             /\ h'[c].pc = "sync"]_vars

\* C21 witness: a connection that named the completed match in JoinGame holds
\* a GameCompleted and the player it named has no session
C21_Witness ==
    \E c \in Conns :
       /\ player_info[c] # NoInfo
       /\ player_info[c].game_id = G1
       /\ games[G1].status = "completed"
       /\ \E m \in sent : m.type = "GameCompleted" /\ m.to = c
       /\ h[c].pc = "sync" /\ h[c].after = "JoinGame"
       /\ conns[player_info[c].username] = NoConn

\* C22: a private chat message is enqueued only to sessions of its match whose
\* player is its sender or its recipient, and every chat message enqueued is
\* one that was persisted.
C22_PrivateChatOnlyToParties ==
    \A m \in sent :
       m.type = "ChatMessageReceived" =>
          /\ \E i \in DOMAIN chat_messages :
                /\ chat_messages[i].id = m.id
                /\ chat_messages[i].game_id = m.game_id
                /\ chat_messages[i].sender = m.sender
                /\ chat_messages[i].recipient = m.recipient
          /\ m.is_private =>
                /\ m.recipient # None
                /\ m.session \in {m.sender, m.recipient}
                /\ conns[m.session] # NoConn
                /\ conns[m.session].game_id = m.game_id
                /\ conns[m.session].id = m.to

\* C22 witness: alice's private message to bob went to both of them, and to
\* nobody else, while carol and timea are connected on the other match
C22_Witness ==
    /\ {m.session : m \in {n \in sent : n.type = "ChatMessageReceived" /\ n.is_private}}
          = {"alice", "bob"}
    /\ conns["carol"] # NoConn
    /\ conns["timea"] # NoConn

\* C23: the step that takes a frame which fails to decode changes no match,
\* no registry entry, no disconnection record and no abandonment task, sends
\* nothing, and leaves the connection's receive loop waiting for the next
\* frame.
C23_UndecodableFrameDropped ==
    [][\A c \in Conns :
          undecoded'[c] # undecoded[c] =>
             /\ games' = games
             /\ conns' = conns
             /\ disconnected' = disconnected
             /\ timers' = timers
             /\ chat_messages' = chat_messages
             /\ sent' = {}
             /\ h'[c] = Idle]_vars

\* C23 witness: alice's connection dropped a frame and then handled a chat
\* frame, whose message is stored and went out
C23_Witness ==
    /\ undecoded[1] > 0
    /\ h[1] = Idle
    /\ \E m \in sent : /\ m.type = "ChatMessageReceived"
                        /\ m.sender = "alice"
                        /\ m.id = Len(chat_messages)

\* the connection ids of the sessions the registry holds for game_id
RegisteredFor(game_id) ==
    {conns[p].id : p \in {q \in Players : conns[q] # NoConn /\ conns[q].game_id = game_id}}

\* the connection ids the messages of one type in a set of messages go to
Receivers(msgs, type) == {m.to : m \in {n \in msgs : n.type = type}}

\* C24: the handler of a GameOver frame for an existing match stores status
\* completed and the frame's result text whatever the status was, and its
\* notification sends GameCompleted to every session registered for the match.
C24_GameOverCompletesAndTells ==
    [][\A c \in Conns :
          /\ (h[c].pc = "idle" /\ h'[c].pc = "over_notify") =>
                /\ games'[h'[c].game_id].status = "completed"
                /\ games'[h'[c].game_id].result = h'[c].result
          /\ (h[c].pc = "over_notify" /\ h[c].next = "idle" /\ h'[c].pc = "idle") =>
                Receivers(sent', "GameCompleted") = RegisteredFor(h[c].game_id)]_vars

\* the handler of a RequestTimeSync frame on connection c runs in this step
TimeSyncStep(c) ==
    /\ h[c].pc = "idle"
    /\ frames' = frames + 1
    /\ undecoded' = undecoded
    /\ chat_messages' = chat_messages
    /\ h'[c].pc = "sync_locked" \/ h' = h

\* the clock a TimeUpdate is to report for a colour of match game
LiveClock(game, color) ==
    LET stored == IF color = "white" THEN game.white_time_ms ELSE game.black_time_ms
        elapsed_ms == now - game.last_move_timestamp
    IN IF game.turn # color THEN stored
       ELSE IF stored - elapsed_ms > 0 THEN stored - elapsed_ms ELSE 0

\* C25: the handler of RequestTimeSync leaves the match records as they are;
\* what it sends are TimeUpdate messages, only for an active match, with the
\* stored clock minus the elapsed time, floored at zero, for the side to move
\* and the stored clock for the other side.
C25_TimeSyncReportsLiveClocks ==
    [][\A c \in Conns :
          TimeSyncStep(c) =>
             /\ games' = games
             /\ \A m \in sent' :
                   /\ m.type = "TimeUpdate"
                   /\ h'[c].pc = "sync_locked"
                   /\ games[h'[c].game_id].status = "active"
                   /\ m.white_time_ms = LiveClock(games[h'[c].game_id], "white")
                   /\ m.black_time_ms = LiveClock(games[h'[c].game_id], "black")]_vars

\* C25 witness: a RequestTimeSync reported 0 for white, who is to move and
\* whose stored clock of 2 ran out, and the stored clock for black
C25_Witness ==
    /\ h[LockSyncer].pc = "sync_locked"
    /\ games[G1].turn = "white"
    /\ games[G1].white_time_ms > 0
    /\ now - games[G1].last_move_timestamp > games[G1].white_time_ms
    /\ \E m \in sent : /\ m.type = "TimeUpdate"
                        /\ m.white_time_ms = 0
                        /\ m.black_time_ms = games[G1].black_time_ms

\* C26: when a step sends GameJoined, the registry then maps the player it is
\* sent for to a session of the joined match that carries the id of the
\* connection it is sent on.
C26_GameJoinedMeansRegistered ==
    [][\A m \in sent' :
          m.type = "GameJoined" =>
             /\ conns'[m.username] # NoConn
             /\ conns'[m.username].id = m.to
             /\ conns'[m.username].game_id = m.game_id]_vars

\* connection c leaves position pc in this step
Leaves(c, pc) == h[c].pc = pc /\ h'[c].pc # pc

\* C27: the MoveMade of a move, the GameResigned and GameCompleted of a
\* resignation, the GameCompleted of a game over and the TimeUpdate of the
\* time sync of an active match each go to every session the registry holds
\* for the match at the step of the broadcast.
C27_BroadcastReachesEverySession ==
    [][\A c \in Conns :
          /\ Leaves(c, "move_write") =>
                Receivers(sent', "MoveMade") = RegisteredFor(h[c].game_id)
          /\ Leaves(c, "resign_notify") =>
                /\ Receivers(sent', "GameResigned") = RegisteredFor(h[c].game_id)
                /\ Receivers(sent', "GameCompleted") = RegisteredFor(h[c].game_id)
          /\ Leaves(c, "over_notify") =>
                Receivers(sent', "GameCompleted") = RegisteredFor(h[c].game_id)
          /\ (Leaves(c, "sync") /\ games[h[c].game_id] # NoGame
                               /\ games[h[c].game_id].status = "active"
                               /\ games[h[c].game_id].white_player # None
                               /\ games[h[c].game_id].black_player # None) =>
                Receivers(sent', "TimeUpdate") = RegisteredFor(h[c].game_id)]_vars

\* the abandonment task t does the write of handle_abandonment in this step
AbandonWriteStep(t) == t.pc = "update" /\ t \notin timers'

\* C28: the write of a timeout resolution and the write of an abandonment
\* resolution change the match only when its stored status is active at that
\* step; on a match that is no longer active the step changes no match and
\* sends nothing.
C28_LostRaceWritesNothing ==
    [][/\ \A c \in Conns :
             (Leaves(c, "move_timeout") /\ games[h[c].game_id].status # "active") =>
                games' = games /\ sent' = {}
       /\ \A t \in timers :
             (AbandonWriteStep(t) /\ games[t.game_id].status # "active") =>
                games' = games /\ sent' = {}]_vars

\* C28 witness: alice's first move came when her clock had run out, so its
\* timeout resolution was due; the abandonment resolution for bob completed
\* the match first, and the timeout resolution has run and left that result
C28_Witness ==
    /\ h[LeavePlayer].pc = "sync"
    /\ h[LeavePlayer].after = "Move"
    /\ Len(games[G1].moves) = 1
    /\ games[G1].white_time_ms = 0
    /\ games[G1].status = "completed"
    /\ games[G1].result = <<"bob", "abandoned">>
    /\ games[G1].reason = "abandonment"
    /\ sent = {}

\* username holds a slot of the match game_id
HoldsSlot(game_id, username) ==
    /\ games[game_id] # NoGame
    /\ username \in {games[game_id].white_player, games[game_id].black_player}

\* the stream of connection c ends in this step
Closes(c) == h[c].pc # "closed" /\ h'[c].pc = "closed"

\* C29: a match completed by abandonment names as the abandoning player one
\* of its two slot holders, and the close of a connection whose JoinGame named
\* a match in which its player holds no slot creates no disconnection record
\* and no abandonment task.
C29_AbandonmentOnlyForSeatedPlayers ==
    [][/\ \A g \in GameIds :
             (games'[g] # NoGame /\ games'[g].reason = "abandonment") =>
                games'[g].result[1] \in {games'[g].white_player, games'[g].black_player}
       /\ \A c \in Conns :
             (/\ Closes(c)
              /\ player_info[c] # NoInfo
              /\ ~HoldsSlot(player_info[c].game_id, player_info[c].username)) =>
                /\ disconnected' = disconnected
                /\ timers' = timers]_vars

\* the start_game_timer task t stamps the clock start in this step
StampStep(t) == t \in starters /\ t \notin starters'

\* C30: no Move is accepted for a match whose start_game_timer has yet to
\* stamp the clock start, and the stamp is written only to a match that is
\* active and has no move recorded.
C30_StampBelongsToActivation ==
    [][/\ \A c \in Conns :
             (h[c].pc = "idle" /\ h'[c].pc = "move_write") =>
                \A t \in starters : t.game_id # h'[c].game_id
       /\ \A t \in starters :
             StampStep(t) =>
                /\ games[t.game_id].status = "active"
                /\ games[t.game_id].moves = <<>>]_vars

\* the write of the resignation pending on connection c was applied before
\* the write of the game over pending on connection d: the stored result is
\* the one d wrote.  (Nothing else writes a result while both are pending.)
ResignWrittenBeforeOver(c, d) ==
    /\ h[c].pc = "resign_notify"
    /\ h[d].pc = "over_notify"
    /\ h[c].game_id = h[d].game_id
    /\ "result" \in DOMAIN h[d]
    /\ games[h[d].game_id].result = h[d].result

\* the write of the game over pending on d was applied before the write of
\* the resignation pending on c
OverWrittenBeforeResign(c, d) ==
    /\ h[c].pc = "resign_notify"
    /\ h[d].pc = "over_notify"
    /\ h[c].game_id = h[d].game_id
    /\ games[h[c].game_id].result = <<h[c].username, "resigned">>

\* C31: of a resignation and a game over of the same match that are both
\* written and not yet broadcast, the one written second does not broadcast
\* while the one written first has still to.
C31_BroadcastsFollowWriteOrder ==
    [][\A c, d \in Conns :
          /\ (ResignWrittenBeforeOver(c, d) /\ sent' # {}) => h'[d].pc = "over_notify"
          /\ (OverWrittenBeforeResign(c, d) /\ sent' # {}) => h'[c].pc = "resign_notify"]_vars

\* the colour of username in game, None when it holds no slot
ColorOf(game, username) ==
    IF game.white_player = username THEN "white"
    ELSE IF game.black_player = username THEN "black" ELSE None

\* the handler of a Move frame on connection c runs its first part in this
\* step: up to its return, or up to its update
MoveStep(c) ==
    /\ h[c].pc = "idle"
    /\ \/ h'[c].pc = "move_write"
       \/ h'[c].pc = "sync" /\ h'[c].after = "Move"

\* C32: a Move frame of the player to move in an active match goes on to the
\* update (move appended, turn flipped) whatever position it carries; it is
\* never returned from without effect.
C32_UnparseablePositionStillApplied ==
    [][\A c \in MoveConns :
          (/\ MoveStep(c)
           /\ games[G1].status = "active"
           /\ ColorOf(games[G1], PlayOwner[c]) = games[G1].turn) =>
             /\ h'[c].pc = "move_write"
             /\ Len(h'[c].game.moves) = Len(games[G1].moves) + 1
             /\ h'[c].game.turn # games[G1].turn]_vars

\* C33: when the handler of a Move leaves its update without the move being
\* stored, the sender is sent an Error and no MoveMade goes out.
C33_FailedWriteAnsweredWithError ==
    [][\A c \in Conns :
          (Leaves(c, "move_write") /\ games'[h[c].game_id].moves # h[c].game.moves) =>
             /\ \E m \in sent' : m.type = "Error" /\ m.to = c
             /\ \A m \in sent' : m.type # "MoveMade"]_vars

\* the result text of a checkmate
IsCheckmateResult(result) ==
    /\ Len(result) = 4
    /\ result[2] = "wins" /\ result[3] = "by" /\ result[4] = "checkmate"

\* the player of the colour a checkmate result names
CheckmateWinner(game, result) ==
    IF result[1] = "White" THEN game.white_player ELSE game.black_player

\* C34: the handler of a move that gives checkmate broadcasts MoveMade, then
\* stores the match as completed with the result naming the mover's colour,
\* then sends every session of the match a GameCompleted whose winner is the
\* mover and whose reason is checkmate.
C34_CheckmateCompletesForMover ==
    [][\A c \in Conns :
          /\ (Leaves(c, "move_write") /\ h[c].game.fen = FenMate) =>
                /\ h'[c].pc = "over_write"
                /\ IsCheckmateResult(h'[c].result)
                /\ CheckmateWinner(h[c].game, h'[c].result) = h[c].username
                /\ Receivers(sent', "MoveMade") = RegisteredFor(h[c].game_id)
          /\ (Leaves(c, "over_write") /\ IsCheckmateResult(h[c].result)) =>
                /\ h'[c].pc = "over_notify"
                /\ games'[h[c].game_id].status = "completed"
                /\ games'[h[c].game_id].result = h[c].result
          /\ (Leaves(c, "over_notify") /\ h[c].next = "sync"
                                       /\ IsCheckmateResult(h[c].result)) =>
                /\ Receivers(sent', "GameCompleted") = RegisteredFor(h[c].game_id)
                /\ \A m \in sent' :
                      m.type = "GameCompleted" =>
                         /\ m.winner = CheckmateWinner(games[h[c].game_id], h[c].result)
                         /\ m.reason = "checkmate"]_vars

\* C35: the close of a connection leaves every registry entry of another
\* connection identity as it was, the entry a newer connection of the same
\* player installed included.
C35_CloseRemovesOnlyOwnEntry ==
    [][\A c \in Conns :
          Closes(c) =>
             \A p \in Players :
                (conns[p] # NoConn /\ conns[p].id # c) => conns'[p] = conns[p]]_vars

\* alice's first connection has closed after her third connection rejoined the
\* match (the close left a disconnection record, which a later rejoin would
\* have removed), and the registry still holds the third connection's entry
C35_Witness ==
    /\ h[1].pc = "closed"
    /\ player_info[1] # NoInfo /\ player_info[1].username = "alice"
    /\ h[4].pc = "idle" /\ player_info[4] = NoInfo
    /\ h[3].pc = "idle"
    /\ disconnected["alice"] # NoInfo /\ disconnected["alice"].game_id = G1
    /\ conns["alice"] # NoConn /\ conns["alice"].id = 3

\* the sleeping abandonment task t wakes up and takes its decision in this step
FireStep(t) == t \in timers /\ t.pc = "sleep" /\ t \notin timers'

\* the registry holds an entry of the player for the match whose connection is
\* still open
LiveSession(game_id, username) ==
    /\ conns[username] # NoConn
    /\ conns[username].game_id = game_id
    /\ h[conns[username].id].pc # "closed"

\* C36: an abandonment task that wakes up while its player has a live
\* registered session for its match does not go on to abandon the match.
C36_LiveSessionNotAbandoned ==
    [][\A t \in timers :
          (FireStep(t) /\ LiveSession(t.game_id, t.username)) =>
             \A u \in timers' : ~(u.task = t.task /\ u.pc = "update")]_vars

\* the time the side to move of a stored match has left at time t
RemainingOfMover(game, t) ==
    (IF game.turn = "white" THEN game.white_time_ms ELSE game.black_time_ms)
       - (t - game.last_move_timestamp)

\* C37: a Move accepted when the mover's remaining time is zero or less leaves
\* the mover with no time on the clock the handler goes on to store.
C37_FlaggedMoverKeepsNoTime ==
    [][\A c \in Conns :
          (/\ h[c].pc = "idle" /\ h'[c].pc = "move_write"
           /\ RemainingOfMover(games[h'[c].game_id], now) <= 0) =>
             (IF games[h'[c].game_id].turn = "white"
              THEN h'[c].game.white_time_ms
              ELSE h'[c].game.black_time_ms) <= 0]_vars

\* connection c joined match game_id as one of its two players
JoinedAsPlayer(c, game_id) ==
    /\ player_info[c] # NoInfo
    /\ player_info[c].game_id = game_id
    /\ HoldsSlot(game_id, player_info[c].username)

\* connection c joined match game_id as the player username
JoinedAs(c, game_id, username) ==
    /\ JoinedAsPlayer(c, game_id)
    /\ player_info[c].username = username

\* C38: the write of a Move, Resign or OfferDraw handler changes a match only
\* on a connection that joined that match as the player the frame names, and
\* the write of an AcceptDraw or GameOver handler only on a connection that
\* joined that match as one of its players.
C38_FramesActOnlyForOwnPlayer ==
    [][\A c \in Conns :
          /\ ((Leaves(c, "move_write") \/ Leaves(c, "resign_write") \/ Leaves(c, "offer_write"))
                 /\ games' # games) =>
                JoinedAs(c, h[c].game_id, h[c].username)
          /\ (Leaves(c, "accept_write") /\ games' # games) =>
                JoinedAsPlayer(c, h[c].game_id)
          /\ (h[c].pc = "idle" /\ h'[c].pc = "over_notify" /\ games' # games) =>
                JoinedAsPlayer(c, h'[c].game_id)]_vars

\* C39: once the handler of a connection has finished, the registry holds no
\* entry with that connection's identity.
C39_FinishedConnectionNotRegistered ==
    \A c \in Conns :
       h[c].pc = "closed" =>
          \A p \in Players : conns[p] = NoConn \/ conns[p].id # c

\* C40: every disconnection record is removed in the end.
C40_RecordsEventuallyRemoved ==
    \A p \in Players : (disconnected[p] # NoInfo) ~> (disconnected[p] = NoInfo)

\* alice's first connection closed, none of her other connections sent a
\* JoinGame, the grace window is over and the record the close left is gone:
\* the abandonment task removed it
C40_Witness ==
    /\ h[1].pc = "closed"
    /\ player_info[3] = NoInfo /\ player_info[4] = NoInfo
    /\ now >= GraceTicks
    /\ timers = {}
    /\ games[G1].reason = "abandonment"
    /\ disconnected["alice"] = NoInfo

====
